---- MODULE Spec2Model ----
(***************************************************************************)
(* careers_backend: a FastAPI application with two resources, users and    *)
(* items, each with a create (POST) and a read-by-id (GET) endpoint over a *)
(* relational store, a root endpoint, an email based current-user          *)
(* dependency and a start-up that creates the tables and mounts the        *)
(* routers.                                                                *)
(***************************************************************************)
EXTENDS Integers, Sequences, FiniteSets, TLC

(* ---------------------------- bounds ---------------------------------- *)
NumReq  == 2    \* requests the server handles concurrently
MaxRows == 2    \* rows per table

(* --------------------------- value sets -------------------------------- *)
Req      == 1..NumReq
Entities == {"users", "items"}
Null     == "NULL"                    \* Python None / SQL NULL as a string value
Emails   == {"a@example.com", "b@example.com"}
Titles   == {"chair"}
Ids      == 1..(MaxRows + 1)          \* path parameters tried by GET
EnvPrefix == {Null, "/api/v2"}        \* API_V1_STR in the environment / .env
None     == [none |-> TRUE]           \* Python None where an object is expected
Invalid  == [invalid |-> TRUE]        \* a body the Create schema rejects
Payload(d) == [data |-> d]            \* UserCreate(email=d) / ItemCreate(title=d)
NoResponse == [status |-> "none", body |-> None]
NoRequest  == [kind |-> "none", arg |-> None, db |-> 0, response |-> NoResponse]

Kinds == {"create_user", "read_user", "create_item", "read_item",
          "read_root", "get_current_user"}

VARIABLES
    up,          \* the process is running (module app.main has been executed)
    tables,      \* tables that exist in the database
    rows,        \* rows[e]: the set of rows of table e
    unique,      \* the users table declares a unique constraint on email
    openSessions,\* Session objects not yet closed
    pc,          \* pc[r]: idle, the endpoint whose handler is about to run,
                 \* or how the handler call ended: returned, raised
                 \* (HTTPException or validation error), failed (store error)
    db,          \* db[r]: the Session injected into request r, 0 when none
    last,        \* what this step did, if it handled or ended a request or
                 \* started the process: endpoint, argument, Session, response;
                 \* for a start, the environment it read and the paths it
                 \* mounted (nothing later reads or changes them)
    created,     \* history: created[e] is the set of bodies POST /e/ returned
    ncreated     \* history: ncreated[e] counts the 200 responses of POST /e/

vars == <<up, tables, rows, unique, openSessions,
          pc, db, last, created, ncreated>>

(* ----------------------------- settings -------------------------------- *)
\* Settings.API_V1_STR: the environment value when set, else the default
API_V1_STR(e) == IF e = Null THEN "/api/v1" ELSE e

(* --------------------------- data access ------------------------------- *)
Max(S) == CHOOSE x \in S : \A y \in S : y <= x

\* identity the store assigns to the next inserted row (integer primary key)
NextId(table) == IF table = {} THEN 1 ELSE Max({row.id : row \in table}) + 1

\* crud.<entity>.get_<entity>(db, id): the row with that id, or None
get_by_id(table, id) ==
    IF \E row \in table : row.id = id
    THEN CHOOSE row \in table : row.id = id
    ELSE None

\* crud.user.get_user_by_email(db, email): first row with that email, or None
get_user_by_email(table, email) ==
    IF \E row \in table : row.data = email
    THEN CHOOSE row \in table :
            /\ row.data = email
            /\ \A other \in table : other.data = email => row.id <= other.id
    ELSE None

\* the INSERT violates a constraint the store enforces
Violates(e, table, uniq, payload) ==
    e = "users" /\ uniq /\ \E row \in table : row.data = payload.data

\* crud.<entity>.create_<entity>(db, payload): the row as persisted
NewRow(table, payload) == [id |-> NextId(table), data |-> payload.data]

(* ----------------------------- responses ------------------------------- *)
Ok(body)            == [status |-> "200", body |-> body]
HTTPException(c, d) == [status |-> c, body |-> [detail |-> d]]
ValidationError     == [status |-> "422", body |-> [detail |-> "validation error"]]
ServerError         == [status |-> "500", body |-> [detail |-> "Internal Server Error"]]

Outcome(resp) ==
    IF resp.status = "200" THEN "returned"
    ELSE IF resp.status = "500" THEN "failed"
    ELSE "raised"

Handled == {"returned", "raised", "failed"}

(* ------------------------------ handlers ------------------------------- *)
\* read_user with the lookup made for the next id
read_user_off_by_one(users, user_id) ==
    LET db_user == get_by_id(users, user_id + 1)
    IN  IF db_user = None
        THEN HTTPException("404", "User not found")
        ELSE Ok(db_user)

\* users.py read_user: 404 when the lookup is None, else the row
read_user(users, user_id) ==
    LET db_user == get_by_id(users, user_id)
    IN  IF db_user = None
        THEN HTTPException("404", "User not found")
        ELSE Ok(db_user)

\* read_item with the None test inverted
read_item_inverted(items, item_id) ==
    LET db_item == get_by_id(items, item_id)
    IN  IF db_item # None
        THEN HTTPException("404", "Item not found")
        ELSE Ok(db_item)

\* read_item with the detail of the users endpoint
read_item_user_detail(items, item_id) ==
    LET db_item == get_by_id(items, item_id)
    IN  IF db_item = None
        THEN HTTPException("404", "User not found")
        ELSE Ok(db_item)

\* items.py read_item
read_item(items, item_id) ==
    LET db_item == get_by_id(items, item_id)
    IN  IF db_item = None
        THEN HTTPException("404", "Item not found")
        ELSE Ok(db_item)

\* get_current_user without the None check
get_current_user_unchecked(users, email) ==
    Ok(get_user_by_email(users, email))

\* deps.py get_current_user
get_current_user(users, email) ==
    LET user == get_user_by_email(users, email)
    IN  IF user = None
        THEN HTTPException("401", "Invalid credentials")
        ELSE Ok(user)

\* read_root with another message
read_root_hello == Ok([message |-> "Hello World"])

\* main.py read_root
read_root == Ok([message |-> "Welcome to the FastAPI application!"])

\* create_user returning its input instead of the persisted row
create_user_returns_input(persisted, user) == Ok(user)

\* users.py create_user / items.py create_item: the handler returns what
\* the data access layer returned
create_user(persisted, user) == Ok(persisted)
create_item(persisted, item) == Ok(persisted)

\* create_user refusing an email that is already registered
create_user_checks_email(users, user) ==
    get_user_by_email(users, user.data) # None

\* users.py create_user: the handler makes no lookup before the insert
create_user_precheck(users, user) == FALSE

(* ----------------------------- bootstrap ------------------------------- *)
\* create_all that creates the table anew
create_all_recreates(tbls, rws, e) ==
    [tables |-> tbls \cup {e}, rows |-> [rws EXCEPT ![e] = {}]]

\* Base.metadata.create_all(bind=engine): creates the tables that are absent
create_all(tbls, rws, e) ==
    [tables |-> tbls \cup {e},
     rows   |-> IF e \in tbls THEN rws ELSE [rws EXCEPT ![e] = {}]]

\* app.include_router(..., prefix=f"{settings.API_V1_STR}/<entity>")
include_router(mounted, prefix, entity) == mounted \cup {prefix \o "/" \o entity}

(* ------------------------------- Init ---------------------------------- *)
Init ==
    /\ up = FALSE
    /\ tables = {}
    /\ rows = [e \in Entities |-> {}]
    /\ unique \in BOOLEAN
    /\ openSessions = {}
    /\ pc = [r \in Req |-> "idle"]
    /\ db = [r \in Req |-> 0]
    /\ last = NoRequest
    /\ created = [e \in Entities |-> {}]
    /\ ncreated = [e \in Entities |-> 0]

(* ------------------------------ actions -------------------------------- *)
Event(k, a, s) == [kind |-> k, arg |-> a, db |-> s, response |-> NoResponse]

\* main.py, module level: create the tables, mount the routers
Startup ==
    /\ ~up
    /\ LET i == create_all(tables, rows, "items")
           u == create_all(i.tables, i.rows, "users")
       IN  /\ tables' = u.tables
           /\ rows' = u.rows
    /\ \E env \in EnvPrefix :
        LET routes == include_router(
                        include_router({"/"}, API_V1_STR(env), "items"),
                        API_V1_STR(env), "users")
        IN  last' = Event("startup", [env |-> env, routes |-> routes], 0)
    /\ up' = TRUE
    /\ UNCHANGED <<unique, openSessions, pc, db, created, ncreated>>

\* the server stops once the requests in flight have ended
Shutdown ==
    /\ up
    /\ \A r \in Req : pc[r] = "idle"
    /\ up' = FALSE
    /\ last' = NoRequest
    /\ UNCHANGED <<tables, rows, unique, openSessions,
                   pc, db, created, ncreated>>

NeedsDb(k) == k # "read_root"

\* SessionLocal(): a new Session object, named after the call that made it
SessionLocal(r) == r

\* a request is routed to its endpoint; Depends(get_db) constructs the
\* request's Session
Begin(r) ==
    /\ up
    /\ pc[r] = "idle"
    /\ \E k \in Kinds :
        /\ pc' = [pc EXCEPT ![r] = k]
        /\ IF NeedsDb(k)
           THEN LET s == SessionLocal(r)
                IN  /\ openSessions' = openSessions \cup {s}
                    /\ db' = [db EXCEPT ![r] = s]
           ELSE UNCHANGED <<openSessions, db>>
    /\ last' = NoRequest
    /\ UNCHANGED <<up, tables, rows, unique, created, ncreated>>

Respond(r, a, resp) ==
    /\ last' = [kind |-> pc[r], arg |-> a, db |-> db[r], response |-> resp]
    /\ pc' = [pc EXCEPT ![r] = Outcome(resp)]
    /\ UNCHANGED <<up, unique, openSessions, db, tables>>

\* the body does not fit the Create schema: the handler is not called
Reject(r) ==
    /\ pc[r] \in {"create_user", "create_item"}
    /\ Respond(r, Invalid, ValidationError)
    /\ UNCHANGED <<rows, created, ncreated>>

\* POST /<entity>/: the handler and the insert it delegates to
Create(r, e, payload) ==
    /\ db[r] \in openSessions
    /\ IF e = "users" /\ create_user_precheck(rows[e], payload)
       THEN /\ Respond(r, payload,
                       HTTPException("400", "Email already registered"))
            /\ UNCHANGED <<rows, created, ncreated>>
       ELSE IF Violates(e, rows[e], unique, payload)
       THEN /\ Respond(r, payload, ServerError)
            /\ UNCHANGED <<rows, created, ncreated>>
       ELSE /\ Cardinality(rows[e]) < MaxRows
            /\ LET row  == NewRow(rows[e], payload)
                   resp == IF e = "users" THEN create_user(row, payload)
                                          ELSE create_item(row, payload)
               IN  /\ rows' = [rows EXCEPT ![e] = @ \cup {row}]
                   /\ Respond(r, payload, resp)
                   /\ created' = [created EXCEPT ![e] = @ \cup {resp.body}]
                   /\ ncreated' = [ncreated EXCEPT ![e] = @ + 1]

\* POST /users/
CreateUser(r) ==
    /\ pc[r] = "create_user"
    /\ \E email \in Emails : Create(r, "users", Payload(email))

\* POST /items/
CreateItem(r) ==
    /\ pc[r] = "create_item"
    /\ \E title \in Titles : Create(r, "items", Payload(title))

\* GET /users/{user_id}
ReadUser(r) ==
    /\ pc[r] = "read_user"
    /\ db[r] \in openSessions
    /\ \E user_id \in Ids : Respond(r, user_id, read_user(rows["users"], user_id))
    /\ UNCHANGED <<rows, created, ncreated>>

\* a GET that inserts the row it did not find
ReadItemOrCreate(r) ==
    /\ pc[r] = "read_item"
    /\ db[r] \in openSessions
    /\ \E item_id \in Ids :
        /\ Respond(r, item_id, read_item(rows["items"], item_id))
        /\ rows' = IF get_by_id(rows["items"], item_id) = None
                   THEN [rows EXCEPT !["items"] =
                            @ \cup {[id |-> item_id, data |-> Null]}]
                   ELSE rows
    /\ UNCHANGED <<created, ncreated>>

\* GET /items/{item_id}
ReadItem(r) ==
    /\ pc[r] = "read_item"
    /\ db[r] \in openSessions
    /\ \E item_id \in Ids : Respond(r, item_id, read_item(rows["items"], item_id))
    /\ UNCHANGED <<rows, created, ncreated>>

\* GET /
ReadRoot(r) ==
    /\ pc[r] = "read_root"
    /\ Respond(r, None, read_root)
    /\ UNCHANGED <<rows, created, ncreated>>

\* a request that depends on get_current_user
GetCurrentUser(r) ==
    /\ pc[r] = "get_current_user"
    /\ db[r] \in openSessions
    /\ \E email \in Emails \cup {Null} :
        Respond(r, email, get_current_user(rows["users"], email))
    /\ UNCHANGED <<rows, created, ncreated>>

\* get_db closing the Session only when the handler returned
get_db_close_on_return(sessions, s, outcome) ==
    IF outcome = "returned" THEN sessions \ {s} ELSE sessions

\* get_db's finally: the Session is closed however the handler call ended
get_db_close(sessions, s, outcome) == sessions \ {s}

\* the request ends: the response is sent and the dependency is torn down
End(r) ==
    /\ pc[r] \in Handled
    /\ openSessions' = get_db_close(openSessions, db[r], pc[r])
    /\ pc' = [pc EXCEPT ![r] = "idle"]
    /\ db' = [db EXCEPT ![r] = 0]
    /\ last' = Event("end", [outcome |-> pc[r]], db[r])
    /\ UNCHANGED <<up, tables, rows, unique, created, ncreated>>

Next ==
    \/ Startup
    \/ Shutdown
    \/ \E r \in Req : Begin(r)
    \/ \E r \in Req : Reject(r)
    \/ \E r \in Req : CreateUser(r)
    \/ \E r \in Req : CreateItem(r)
    \/ \E r \in Req : ReadUser(r)
    \/ \E r \in Req : ReadItem(r)
    \/ \E r \in Req : ReadRoot(r)
    \/ \E r \in Req : GetCurrentUser(r)
    \/ \E r \in Req : End(r)

Spec == Init /\ [][Next]_vars

(* ------------------------------ properties ----------------------------- *)
IdsOf(S) == {b.id : b \in S}
Found(b) == [status |-> "200", body |-> b]
NotFound(d) == [status |-> "404", body |-> [detail |-> d]]
ReadKind(e)   == IF e = "users" THEN "read_user" ELSE "read_item"
CreateKind(e) == IF e = "users" THEN "create_user" ELSE "create_item"
Read(e, table, id) ==
    IF e = "users" THEN read_user(table, id) ELSE read_item(table, id)
Other(e) == IF e = "users" THEN "items" ELSE "users"

\* this step ran the handler of endpoint k for request r
Ran(r, k) == pc[r] = k /\ pc'[r] \in Handled
\* this step ran the create handler of entity e (the body passed validation)
RanCreate(r, e) == Ran(r, CreateKind(e)) /\ last'.arg # Invalid

\* C1: when POST /<entity>/ returns a record, a GET of the returned id in the
\* state the create leaves succeeds with that same record, and so does a
\* GET /<entity>/{id} handled as the very next step.
C1_ReadAfterCreate ==
    [][\A e \in Entities :
        /\ (\E r \in Req : RanCreate(r, e) /\ last'.response.status = "200") =>
              /\ "id" \in DOMAIN last'.response.body
              /\ Read(e, rows'[e], last'.response.body.id)
                    = Found(last'.response.body)
        /\ ( /\ last.kind = CreateKind(e)
             /\ last.response.status = "200"
             /\ \E r \in Req : Ran(r, ReadKind(e))
             /\ last'.arg = last.response.body.id ) =>
              last'.response = Found(last.response.body)
      ]_vars

C1_Witness ==
    /\ last.kind = "create_user"
    /\ last.response.status = "200"
    /\ last.response.body.id = MaxRows
    /\ \E r \in Req : pc[r] = "read_user"

\* C2: a GET for an id no create has returned answers 404 with the detail of
\* its entity, and a 404 is answered only by a GET whose lookup found nothing.
C2_NotFound ==
    /\ last.kind = "read_item" =>
        /\ last.arg \notin IdsOf(created["items"]) =>
              last.response = NotFound("Item not found")
        /\ last.response.status = "404" =>
              ~ \E row \in rows["items"] : row.id = last.arg
    /\ last.kind = "read_user" =>
        /\ last.arg \notin IdsOf(created["users"]) =>
              last.response = NotFound("User not found")
        /\ last.response.status = "404" =>
              ~ \E row \in rows["users"] : row.id = last.arg
    /\ last.response.status = "404" => last.kind \in {"read_item", "read_user"}

C2_Witness ==
    /\ last.kind = "read_item"
    /\ last.response = NotFound("Item not found")
    /\ created["items"] # {}
    /\ created["users"] # {}

\* C3: every record a create returned carries an assigned identity, and no two
\* records created for one entity share an identity, however the creates of
\* concurrent requests interleave.
C3_IdentityUnique ==
    \A e \in Entities :
        /\ \A b \in created[e] : "id" \in DOMAIN b /\ b.id \in Nat \ {0}
        /\ Cardinality(IdsOf(created[e])) = ncreated[e]

\* two users have been created and two requests in flight have both
\* returned, the later one the create of the second user
C3_Witness ==
    /\ ncreated["users"] = 2
    /\ \A r \in Req : r <= 2 => pc[r] = "returned"
    /\ last.kind = "create_user"

\* C4: a created record is never changed or removed: after every step, of any
\* request on either entity, a GET of its id still returns the record as
\* created, and every GET handled for its id returned it.
C4_RecordStable ==
    [][\A e \in Entities :
        /\ rows[e] \subseteq rows'[e]
        /\ \A b \in created[e] :
              /\ Read(e, rows'[e], b.id) = Found(b)
              /\ ( (\E r \in Req : Ran(r, ReadKind(e))) /\ last'.arg = b.id ) =>
                    last'.response = Found(b)
      ]_vars

C4_Witness ==
    /\ last.kind = "read_user"
    /\ last.arg = 1
    /\ last.response.status = "200"
    /\ ncreated["users"] = MaxRows
    /\ ncreated["items"] > 0

\* C5: a Session is open only while the request it was made for is in
\* progress; it is closed when that request ends, however the handler call
\* ended, and no two requests hold the same Session.
C5_SessionScoped ==
    /\ \A s \in openSessions : \E r \in Req : pc[r] # "idle" /\ db[r] = s
    /\ \A r \in Req : pc[r] = "idle" => db[r] = 0
    /\ \A r1, r2 \in Req : (r1 # r2 /\ db[r1] # 0) => db[r1] # db[r2]
    /\ last.kind = "end" => last.db \notin openSessions
    /\ (last.kind \in Kinds /\ last.db # 0) => last.db \in openSessions

\* a request whose insert failed in the store has ended, its Session closed
C5_Witness ==
    /\ last.kind = "end"
    /\ last.arg.outcome = "failed"
    /\ last.db # 0
    /\ last.db \notin openSessions

\* C6: GET / answers the welcome message whatever the stores hold, runs
\* without a Session and leaves tables and rows as they were.
C6_Root ==
    [][(\E r \in Req : Ran(r, "read_root")) =>
        /\ last'.response =
              [status |-> "200",
               body |-> [message |-> "Welcome to the FastAPI application!"]]
        /\ last'.db = 0
        /\ rows' = rows
        /\ tables' = tables
      ]_vars

C6_Witness ==
    /\ last.kind = "read_root"
    /\ last.response.status = "200"
    /\ rows["users"] # {}
    /\ rows["items"] # {}

\* C7: get_current_user returns a user whose email is the one given when such
\* a user exists, and fails with 401 "Invalid credentials" when none exists,
\* also for the default email None; it never returns an absent user.
C7_CurrentUser ==
    last.kind = "get_current_user" =>
        /\ last.response.body # None
        /\ IF \E u \in rows["users"] : u.data = last.arg
           THEN /\ last.response.status = "200"
                /\ last.response.body \in rows["users"]
                /\ last.response.body.data = last.arg
           ELSE last.response =
                    [status |-> "401", body |-> [detail |-> "Invalid credentials"]]

C7_Witness ==
    /\ last.kind = "get_current_user"
    /\ last.arg = Null
    /\ last.response.status = "401"
    /\ rows["users"] # {}

\* C8: the start-up leaves existing tables and their rows as they are, so every
\* record created before a restart is still returned by GET, and it mounts
\* both routers under the configured prefix, /api/v1 by default.
C8_Bootstrap ==
    [][(~up /\ up') =>
        /\ tables' = tables \cup Entities
        /\ \A e \in tables : rows'[e] = rows[e]
        /\ \A e \in Entities : \A b \in created[e] :
              Read(e, rows'[e], b.id) = Found(b)
        /\ LET env == last'.arg.env
               prefix == IF env = Null THEN "/api/v1" ELSE env
           IN  last'.arg.routes = {"/", prefix \o "/items", prefix \o "/users"}
      ]_vars

C8_Witness ==
    /\ last.kind = "startup"
    /\ last.arg.env = Null
    /\ created["users"] # {}
    /\ created["items"] # {}
    /\ rows["users"] = created["users"]

\* C9: POST /users/ makes no check of its own: where the store enforces no
\* uniqueness a create with an email already present succeeds with a new
\* identity and that email; where the store enforces it, that create fails
\* with the store's error and inserts nothing.
C9_NoDuplicateCheck ==
    [][\A r \in Req : RanCreate(r, "users") =>
        LET dup == \E u \in rows["users"] : u.data = last'.arg.data
        IN  IF unique /\ dup
            THEN /\ last'.response.status = "500"
                 /\ rows' = rows
            ELSE /\ last'.response.status = "200"
                 /\ last'.response.body.data = last'.arg.data
                 /\ last'.response.body.id \notin IdsOf(rows["users"])
                 /\ rows'["users"] = rows["users"] \cup {last'.response.body}
      ]_vars

C9_Witness ==
    /\ ~unique
    /\ last.kind = "create_user"
    /\ last.response.status = "200"
    /\ \E u \in rows["users"] :
          u.id # last.response.body.id /\ u.data = last.response.body.data

\* C10 as stated: a GET leaves both stores unchanged, and every create on an
\* entity adds exactly one record to it and leaves the other store unchanged.
C10_Original ==
    [][\A r \in Req : \A e \in Entities :
        /\ Ran(r, ReadKind(e)) => rows' = rows
        /\ RanCreate(r, e) =>
              /\ rows[e] \subseteq rows'[e]
              /\ Cardinality(rows'[e]) = Cardinality(rows[e]) + 1
              /\ rows'[Other(e)] = rows[Other(e)]
      ]_vars

\* C10 amended: a GET leaves both stores unchanged; a create that returns a
\* record adds exactly that record to its entity's store, a create that
\* fails adds none, and either leaves the other store unchanged.
C10_Frame ==
    [][\A r \in Req : \A e \in Entities :
        /\ Ran(r, ReadKind(e)) => rows' = rows
        /\ RanCreate(r, e) =>
              /\ IF last'.response.status = "200"
                 THEN /\ last'.response.body \notin rows[e]
                      /\ rows'[e] = rows[e] \cup {last'.response.body}
                 ELSE rows'[e] = rows[e]
              /\ rows'[Other(e)] = rows[Other(e)]
      ]_vars

C10_Witness ==
    /\ unique
    /\ last.kind = "create_user"
    /\ last.response.status = "500"
    /\ rows["items"] # {}

====
